---- MODULE Spec2Model ----
(***************************************************************************)
(* Texas Hold'em rules engine (src/game.py) as driven by the request layer *)
(* (src/app.py): add_player, start_hand and player_action on one Game.     *)
(*                                                                         *)
(* The table is modelled as a record g holding the fields of Game; every   *)
(* method is an operator from a table record to a table record (plus the   *)
(* returned (ok, message) pair where the method returns one), translated   *)
(* statement by statement.  Seat indexes are 0-based as in the source;     *)
(* players[i] of the source is g.players[i + 1] here.                      *)
(*                                                                         *)
(* Spec is the table under the web requests that change it; ViewSpec adds  *)
(* the state request (public_state); TableSpec adds the settlement of a    *)
(* showdown as the console loop (main) performs it; EvalSpec runs the hand *)
(* evaluator on a set of seven-card hands.                                 *)
(***************************************************************************)
EXTENDS Integers, Sequences, FiniteSets, TLC

\* ---------------------------------------------------------------- bounds
\* Room capacity handed to Game(max_players=...) by create_room.
max_players == 3
\* Number of successful start_hand calls explored.
MaxHands == 2

\* ------------------------------------------------------- program constants
\* Game.__init__ defaults: sb=10, bb=20.
sb == 10
bb == 20
\* Player.__init__: self.chips = 1000.
StartChips == 1000
\* The value of last_raiser_idx meaning "nobody" (and of a None seat index).
None == -1

\* Raise amounts submitted by callers (the amount argument of player_action).
Amounts == {0, 5, 975}
\* Action words submitted by callers; "dance" is not an action of the engine.
ActionWords == {"fold", "check", "call", "raise", "dance"}

Min(S) == CHOOSE x \in S : \A y \in S : x <= y

\* ------------------------------------------------------------ Card / Deck
\* A card is its position in [Card(r, s) for r in RANKS for s in SUITS]:
\* 4 * (index of r in RANKS) + (index of s in SUITS).
NumRanks == 13
NumSuits == 4
CardValue(c) == (c \div NumSuits) + 2
CardSuit(c) == c % NumSuits

\* Deck.__init__ before the shuffle.
FreshDeck == [i \in 1..(NumRanks * NumSuits) |-> i - 1]

Reverse(s) == [i \in 1..Len(s) |-> s[Len(s) + 1 - i]]

\* random.shuffle: the orders the model explores.
Shuffles == {FreshDeck, Reverse(FreshDeck)}

\* s[:n] and s[n:] of Python (n >= 0), which never fail on a short list.
Take(s, n) == SubSeq(s, 1, IF n < Len(s) THEN n ELSE Len(s))
Drop(s, n) == SubSeq(s, (IF n < Len(s) THEN n ELSE Len(s)) + 1, Len(s))

\* Deck.draw(n) on the table: the drawn cards and the table with them removed.
Draw(g, n) == [drawn |-> Take(g.deck, n), g |-> [g EXCEPT !.deck = Drop(@, n)]]

\* ------------------------------------------------------------------ Player
NewPlayer(id) ==
    [id |-> id, chips |-> StartChips, hole |-> << >>, in_hand |-> TRUE,
     current_bet |-> 0, all_in |-> FALSE]

RECURSIVE SumSeq(_)
SumSeq(s) == IF s = << >> THEN 0 ELSE Head(s) + SumSeq(Tail(s))

\* sum(p.chips for p in players), sum(p.current_bet for p in players)
SumChips(ps) == SumSeq([i \in 1..Len(ps) |-> ps[i].chips])
SumBets(ps) == SumSeq([i \in 1..Len(ps) |-> ps[i].current_bet])

\* [p for p in players if p.chips > 0], order kept
RECURSIVE WithChips(_)
WithChips(ps) ==
    IF ps = << >> THEN << >>
    ELSE IF Head(ps).chips > 0 THEN <<Head(ps)>> \o WithChips(Tail(ps))
         ELSE WithChips(Tail(ps))

\* Indexes (0-based) of the players still in hand.
InPlay(g) == {i \in 0..(Len(g.players) - 1) : g.players[i + 1].in_hand}

\* Game.find_player: the 0-based seat of the player with this id, or None.
FindPlayer(g, pid) ==
    LET S == {i \in 0..(Len(g.players) - 1) : g.players[i + 1].id = pid}
    IN IF S = {} THEN None ELSE CHOOSE i \in S : \A j \in S : i <= j


\* ---------------------------------------------------------- Hand evaluator
\* sorted(values, reverse=True) on a sequence (duplicates kept).
RECURSIVE InsertDesc(_, _)
InsertDesc(v, s) ==
    IF s = << >> THEN <<v>>
    ELSE IF v >= Head(s) THEN <<v>> \o s
         ELSE <<Head(s)>> \o InsertDesc(v, Tail(s))

RECURSIVE SortDesc(_)
SortDesc(s) == IF s = << >> THEN << >> ELSE InsertDesc(Head(s), SortDesc(Tail(s)))

\* sorted(set(values), reverse=True)
RECURSIVE SetDesc(_)
SetDesc(S) ==
    IF S = {} THEN << >>
    ELSE LET m == CHOOSE x \in S : \A y \in S : y <= x
         IN <<m>> \o SetDesc(S \ {m})

\* A set of seats in seat order.
RECURSIVE SetAsc(_)
SetAsc(S) ==
    IF S = {} THEN << >>
    ELSE LET m == CHOOSE x \in S : \A y \in S : x <= y
         IN <<m>> \o SetAsc(S \ {m})

Range(s) == {s[i] : i \in DOMAIN s}

\* is_straight with the ace of an ace-to-five straight counted as its high card.
is_straight_AceHigh(values) ==
    LET d == SetDesc(Range(values))
        vals == IF 14 \in Range(values) THEN Append(d, 1) ELSE d
        W == {i \in 1..(Len(vals) - 4) :
                 \A j \in 0..3 : vals[i + j] - vals[i + j + 1] = 1}
    IN IF W = {} THEN None
       ELSE IF vals[Min(W) + 4] = 1 THEN 14 ELSE vals[Min(W)]

\* is_straight(values): the high card of the first window of five consecutive
\* values in the descending distinct values (the ace also counted as 1), or
\* None.
is_straight(values) ==
    LET d == SetDesc(Range(values))
        vals == IF 14 \in Range(values) THEN Append(d, 1) ELSE d
        W == {i \in 1..(Len(vals) - 4) :
                 \A j \in 0..3 : vals[i + j] - vals[i + j + 1] = 1}
    IN IF W = {} THEN None ELSE vals[Min(W)]

\* Python's tuple order on kicker tuples: element-wise, a proper prefix is less.
RECURSIVE TupleLess(_, _)
TupleLess(a, b) ==
    IF b = << >> THEN FALSE
    ELSE IF a = << >> THEN TRUE
    ELSE IF Head(a) # Head(b) THEN Head(a) < Head(b)
    ELSE TupleLess(Tail(a), Tail(b))

\* score > best on (category, kickers) pairs.
ScoreGreater(x, y) ==
    \/ x.cat > y.cat
    \/ x.cat = y.cat /\ TupleLess(y.kick, x.kick)

\* values = sorted((c.value for c in cards), reverse=True)
Values(cards) == SortDesc([i \in DOMAIN cards |-> CardValue(cards[i])])

\* counts[v]
CountOf(values, v) == Cardinality({i \in DOMAIN values : values[i] = v})

\* by_count_then_value: the distinct values of S sorted by count descending,
\* then by value descending.
RECURSIVE ByCount(_, _)
ByCount(values, S) ==
    IF S = {} THEN << >>
    ELSE LET m == CHOOSE x \in S : \A y \in S :
                      \/ CountOf(values, y) < CountOf(values, x)
                      \/ CountOf(values, y) = CountOf(values, x) /\ y <= x
         IN <<m>> \o ByCount(values, S \ {m})

\* sorted([c.value for c in cards if c.suit == s], reverse=True)
Suited(cards, s) ==
    SortDesc(SelectSeq([i \in DOMAIN cards |->
                           IF CardSuit(cards[i]) = s THEN CardValue(cards[i]) ELSE 0],
                       LAMBDA v : v # 0))

\* The suits holding at least five of the cards.
FlushSuits(cards) == {s \in 0..(NumSuits - 1) : Len(Suited(cards, s)) >= 5}

\* The "Straight Flush" test: the high card of a straight within a suit of at
\* least five cards, or None.
StraightFlushHigh(cards) ==
    LET S == {s \in FlushSuits(cards) : is_straight(Suited(cards, s)) # None}
    IN IF S = {} THEN None ELSE is_straight(Suited(cards, Min(S)))

\* The "Flush" test: the five highest values of a suit of at least five cards,
\* or the empty tuple.
FlushTop(cards) ==
    LET S == FlushSuits(cards)
    IN IF S = {} THEN << >> ELSE Take(Suited(cards, Min(S)), 5)

\* [v for v in values if v not in S]
Without(values, S) == SelectSeq(values, LAMBDA v : v \notin S)

\* The cascade of evaluate_5cards over what it has computed: the descending
\* values, by_count_then_value bcv with the counts c1 and c2 of its first two
\* entries (c2 = 0 when there is one entry), the straight-flush high card sf,
\* the flush values fl, the straight high card st and the kickers k1 (values
\* other than bcv[1]) and k2 (values other than bcv[1] and bcv[2]).
Classify(values, bcv, c1, c2, sf, fl, st, k1, k2) ==
    IF sf # None THEN [cat |-> 8, kick |-> <<sf>>]
    ELSE IF c1 = 4 THEN [cat |-> 7, kick |-> <<bcv[1], k1[1]>>]
    ELSE IF c1 = 3 /\ c2 >= 2 THEN [cat |-> 6, kick |-> <<bcv[1], bcv[2]>>]
    ELSE IF fl # << >> THEN [cat |-> 5, kick |-> fl]
    ELSE IF st # None THEN [cat |-> 4, kick |-> <<st>>]
    ELSE IF c1 = 3 THEN [cat |-> 3, kick |-> <<bcv[1]>> \o Take(k1, 2)]
    ELSE IF c1 = 2 /\ c2 = 2 THEN [cat |-> 2, kick |-> <<bcv[1], bcv[2], k2[1]>>]
    ELSE IF c1 = 2 THEN [cat |-> 1, kick |-> <<bcv[1]>> \o Take(k1, 3)]
    ELSE [cat |-> 0, kick |-> Take(values, 5)]

\* evaluate_5cards(cards): cards is a sequence of cards.
evaluate_5cards(cards) ==
    LET values == Values(cards)
        bcv == ByCount(values, Range(values))
    IN Classify(values, bcv,
                CountOf(values, bcv[1]),
                IF Len(bcv) > 1 THEN CountOf(values, bcv[2]) ELSE 0,
                StraightFlushHigh(cards),
                FlushTop(cards),
                is_straight(values),
                Without(values, {bcv[1]}),
                IF Len(bcv) > 1 THEN Without(values, {bcv[1], bcv[2]}) ELSE << >>)

\* best_from_seven(seven): the greatest score over the five-card combinations,
\* (-1, ()) when there is none.
best_from_seven(seven) ==
    LET Combos == {S \in SUBSET (DOMAIN seven) : Cardinality(S) = 5}
        AsSeq(S) == SelectSeq([i \in DOMAIN seven |-> IF i \in S THEN seven[i] ELSE None],
                              LAMBDA c : c # None)
        Scores == {evaluate_5cards(AsSeq(S)) : S \in Combos}
    IN IF Scores = {} THEN [cat |-> None, kick |-> << >>]
       ELSE CHOOSE x \in Scores : \A y \in Scores : ~ScoreGreater(y, x)

\* HAND_RANKS[score[0]]; index -1 of a Python list is its last element.
HAND_RANKS == <<"High Card", "One Pair", "Two Pair", "Three of a Kind", "Straight",
               "Flush", "Full House", "Four of a Kind", "Straight Flush">>
HandName(score) == IF score.cat = None THEN HAND_RANKS[9] ELSE HAND_RANKS[score.cat + 1]

\* -------------------------------------------------------------------- Game
\* Game.__init__
NewGame ==
    [players |-> << >>, deck |-> << >>, community |-> << >>, pot |-> 0,
     dealer_idx |-> 0, current_bet |-> 0, turn_idx |-> 0, started |-> FALSE,
     stage |-> "waiting", last_raiser_idx |-> None, last_raise_amount |-> bb]

\* (dealer_idx + 1) % len(players) if players else 0
NextDealer(g) ==
    IF Len(g.players) > 0 THEN (g.dealer_idx + 1) % Len(g.players) ELSE 0

\* Game.flush_current_bets_to_pot
flush_current_bets_to_pot(g) ==
    LET bets == SumBets(g.players)
    IN IF bets > 0
       THEN [g EXCEPT !.pot = @ + bets,
                      !.players = [i \in DOMAIN @ |-> [@[i] EXCEPT !.current_bet = 0]]]
       ELSE g

\* Game.next_active_idx(start): the first seat after start, cyclically, that is
\* in hand, not all-in and below the current bet; None when there is none.
next_active_idx(g, start) ==
    LET n == Len(g.players)
        Owing == {i \in 1..n :
                     LET p == g.players[((start + i) % n) + 1]
                     IN p.in_hand /\ ~p.all_in /\ p.current_bet < g.current_bet}
    IN IF Owing = {} THEN None ELSE (start + Min(Owing)) % n

\* Game.all_but_one_folded
all_but_one_folded(g) == Cardinality(InPlay(g)) <= 1

\* Game.is_betting_round_over
is_betting_round_over(g) ==
    \/ all_but_one_folded(g)
    \/ \A i \in DOMAIN g.players :
           ~(g.players[i].in_hand /\ ~g.players[i].all_in
             /\ g.players[i].current_bet < g.current_bet)

\* One step of dealing in advance_stage: preflop -> flop (3 cards), flop -> turn,
\* turn -> river (1 card each), river -> showdown.
DealNext(g) ==
    LET n == IF g.stage = "preflop" THEN 3 ELSE 1
        d == Draw(g, n)
    IN IF g.stage = "preflop"
          THEN [d.g EXCEPT !.community = @ \o d.drawn, !.stage = "flop"]
       ELSE IF g.stage = "flop"
          THEN [d.g EXCEPT !.community = @ \o d.drawn, !.stage = "turn"]
       ELSE IF g.stage = "turn"
          THEN [d.g EXCEPT !.community = @ \o d.drawn, !.stage = "river"]
       ELSE IF g.stage = "river"
          THEN [g EXCEPT !.stage = "showdown"]
       ELSE g

\* while self.stage != "showdown": deal the next street
RECURSIVE RunOut(_)
RunOut(g) == IF g.stage = "showdown" THEN g ELSE RunOut(DealNext(g))

\* Game.advance_stage
advance_stage(g) ==
    LET f == flush_current_bets_to_pot(g)
    IN IF f.stage \in {"preflop", "flop", "turn", "river"}
       THEN LET r == [DealNext(f) EXCEPT !.current_bet = 0,
                                         !.last_raiser_idx = None,
                                         !.last_raise_amount = bb]
                nxt == next_active_idx(r, r.dealer_idx)
            IN IF nxt = None THEN RunOut(r) ELSE [r EXCEPT !.turn_idx = nxt]
       ELSE [f EXCEPT !.started = FALSE, !.stage = "waiting",
                      !.dealer_idx = NextDealer(f)]

\* The end of a hand in collect_pots_and_award: "fine mano".
EndHand(g) ==
    [g EXCEPT !.pot = 0, !.started = FALSE, !.stage = "waiting",
              !.dealer_idx = NextDealer(g)]

\* The seven cards (hole cards, then the full board) of every seat at every
\* table size for every order of the deck explored: seat i (1-based) of n holds
\* the cards at positions i and n + i, the board is the five cards after the
\* hole cards.
DealtSevens ==
    UNION {{<<d[i], d[n + i]>> \o SubSeq(d, 2 * n + 1, 2 * n + 5) : i \in 1..n} :
              d \in Shuffles, n \in 2..max_players}

\* best_from_seven on those hands, computed once.
ScoreTable == [seven \in DealtSevens |-> best_from_seven(seven)]

\* score = best_from_seven(p.hole + self.community) for the seat i (0-based)
ScoreOf(g, i) ==
    LET seven == g.players[i + 1].hole \o g.community
    IN IF seven \in DealtSevens THEN ScoreTable[seven] ELSE best_from_seven(seven)

\* The winners loop of collect_pots_and_award: the seats (in seat order) of the
\* in-hand players whose score is the greatest.
Winners(g) ==
    LET score == [i \in InPlay(g) |-> ScoreOf(g, i)]
    IN SetAsc({i \in InPlay(g) : \A j \in InPlay(g) : ~ScoreGreater(score[j], score[i])})

\* SplitPot with the remainder of the division given to the last of the winners.
SplitPot_RemainderLast(g, ws) ==
    LET k == Len(ws)
        amount(j) == IF j = k THEN (g.pot \div k) + (g.pot % k) ELSE g.pot \div k
        place(i) == CHOOSE j \in 1..k : ws[j] = i
    IN [g |-> EndHand([g EXCEPT !.players =
                          [i \in DOMAIN @ |->
                              IF (i - 1) \in Range(ws)
                              THEN [@[i] EXCEPT !.chips = @ + amount(place(i - 1))]
                              ELSE @[i]]]),
        results |-> [j \in 1..k |->
                        [winner |-> g.players[ws[j] + 1].id,
                         amount |-> amount(j),
                         hand |-> HandName(ScoreOf(g, ws[j]))]]]

\* "Split pot": the pot divided among the winners ws (seats in seat order), the
\* remainder to the first of them; the table after the award and the results.
SplitPot(g, ws) ==
    LET k == Len(ws)
        amount(j) == IF j = 1 THEN (g.pot \div k) + (g.pot % k) ELSE g.pot \div k
        place(i) == CHOOSE j \in 1..k : ws[j] = i
    IN [g |-> EndHand([g EXCEPT !.players =
                          [i \in DOMAIN @ |->
                              IF (i - 1) \in Range(ws)
                              THEN [@[i] EXCEPT !.chips = @ + amount(place(i - 1))]
                              ELSE @[i]]]),
        results |-> [j \in 1..k |->
                        [winner |-> g.players[ws[j] + 1].id,
                         amount |-> amount(j),
                         hand |-> HandName(ScoreOf(g, ws[j]))]]]

\* The award to the only player left in hand, at seat w (0-based).
AwardLast(g, w) ==
    [g |-> EndHand([g EXCEPT !.players[w + 1].chips = @ + g.pot]),
     results |-> <<[winner |-> g.players[w + 1].id, amount |-> g.pot,
                    hand |-> "Unico Rimasto"]>>]

\* Game.collect_pots_and_award: the table after the award and the results list.
collect_pots_and_award(g) ==
    IF Cardinality(InPlay(g)) = 1 THEN AwardLast(g, Min(InPlay(g)))
    ELSE IF InPlay(g) = {} THEN [g |-> [g EXCEPT !.pot = 0], results |-> << >>]
    ELSE SplitPot(g, Winners(g))

\* Game.add_player: the caller (app.join) turns a full room's exception into a
\* failed request; uid is the id drawn for the new player.
add_player(g, uid) ==
    IF Len(g.players) >= max_players
    THEN [g |-> g, ok |-> FALSE, msg |-> "Room full"]
    ELSE [g |-> [g EXCEPT !.players = Append(@, NewPlayer(uid))],
          ok |-> TRUE, msg |-> ""]

\* The two passes of "deal 2 cards": pass r gives seat i (0-based) the card at
\* position r * n + i of the deck.
DealHoles(g) ==
    LET n == Len(g.players)
    IN [g EXCEPT !.players = [i \in DOMAIN @ |->
                                 [@[i] EXCEPT !.hole = <<g.deck[i], g.deck[n + i]>>]],
                 !.deck = Drop(@, 2 * n)]

\* PostBlinds with the all-in flags of the two blind posters left as they were.
PostBlinds_NoFlag(g) ==
    LET n == Len(g.players)
        dealer == g.dealer_idx % n
        sb_idx == (dealer + 1) % n
        bb_idx == (dealer + 2) % n
        sb_amt == IF sb < g.players[sb_idx + 1].chips THEN sb ELSE g.players[sb_idx + 1].chips
        bb_amt == IF bb < g.players[bb_idx + 1].chips THEN bb ELSE g.players[bb_idx + 1].chips
        g1 == [g EXCEPT !.dealer_idx = dealer,
                        !.players[sb_idx + 1].chips = @ - sb_amt,
                        !.players[sb_idx + 1].current_bet = sb_amt]
        g2 == [g1 EXCEPT !.players[bb_idx + 1].chips = @ - bb_amt,
                         !.players[bb_idx + 1].current_bet = bb_amt]
    IN [g2 EXCEPT !.pot = @ + sb_amt + bb_amt,
                  !.current_bet = bb_amt,
                  !.turn_idx = (bb_idx + 1) % n,
                  !.last_raiser_idx = bb_idx]

\* "post blinds" of start_hand, on the table with the hole cards dealt.
PostBlinds(g) ==
    LET n == Len(g.players)
        dealer == g.dealer_idx % n
        sb_idx == (dealer + 1) % n
        bb_idx == (dealer + 2) % n
        sb_amt == IF sb < g.players[sb_idx + 1].chips THEN sb ELSE g.players[sb_idx + 1].chips
        bb_amt == IF bb < g.players[bb_idx + 1].chips THEN bb ELSE g.players[bb_idx + 1].chips
        g1 == [g EXCEPT !.dealer_idx = dealer,
                        !.players[sb_idx + 1].chips = @ - sb_amt,
                        !.players[sb_idx + 1].current_bet = sb_amt,
                        !.players[sb_idx + 1].all_in = (g.players[sb_idx + 1].chips - sb_amt = 0)]
        g2 == [g1 EXCEPT !.players[bb_idx + 1].chips = @ - bb_amt,
                         !.players[bb_idx + 1].current_bet = bb_amt,
                         !.players[bb_idx + 1].all_in = (g1.players[bb_idx + 1].chips - bb_amt = 0)]
    IN [g2 EXCEPT !.pot = @ + sb_amt + bb_amt,
                  !.current_bet = bb_amt,
                  !.turn_idx = (bb_idx + 1) % n,
                  !.last_raiser_idx = bb_idx]

\* Game.start_hand; shuffled is the order random.shuffle leaves the new deck in.
start_hand(g, shuffled) ==
    IF Len(g.players) < 2
    THEN [g |-> g, ok |-> FALSE, msg |-> "Serve almeno 2 giocatori"]
    ELSE IF Len(WithChips(g.players)) < 2
    THEN [g |-> g, ok |-> FALSE, msg |-> "Non ci sono abbastanza giocatori con fiches."]
    ELSE LET active == WithChips(g.players)
             reset == [g EXCEPT !.players = [i \in DOMAIN active |->
                                               [active[i] EXCEPT !.hole = << >>,
                                                                 !.in_hand = TRUE,
                                                                 !.current_bet = 0,
                                                                 !.all_in = FALSE]],
                                !.deck = shuffled,
                                !.community = << >>,
                                !.pot = 0,
                                !.current_bet = 0,
                                !.started = TRUE,
                                !.stage = "preflop",
                                !.last_raiser_idx = None,
                                !.last_raise_amount = bb]
         IN [g |-> PostBlinds(DealHoles(reset)), ok |-> TRUE, msg |-> "Mano iniziata"]

\* "Avanza il turno" at the end of fold, check, call and raise: the turn moves
\* to the next seat that owes chips, and the stage advances when there is none.
AdvanceTurn(g) ==
    LET nxt == next_active_idx(g, g.turn_idx)
    IN IF nxt = None THEN advance_stage(g) ELSE [g EXCEPT !.turn_idx = nxt]

\* to_call = self.current_bet - p.current_bet for the seat i (0-based)
ToCall(g, i) == g.current_bet - g.players[i + 1].current_bet

\* ActFold with the flush of the round's wagers forgotten before the award.
ActFold_NoFlush(g, i) ==
    LET f == [g EXCEPT !.players[i + 1].in_hand = FALSE]
    IN IF all_but_one_folded(f)
       THEN [g |-> collect_pots_and_award(f).g,
             ok |-> TRUE, msg |-> "Hai foldato. Mano terminata."]
       ELSE [g |-> AdvanceTurn(f), ok |-> TRUE, msg |-> "Fold"]

\* player_action, action == "fold", by the seat i at the turn index.
ActFold(g, i) ==
    LET f == [g EXCEPT !.players[i + 1].in_hand = FALSE]
    IN IF all_but_one_folded(f)
       THEN [g |-> collect_pots_and_award(flush_current_bets_to_pot(f)).g,
             ok |-> TRUE, msg |-> "Hai foldato. Mano terminata."]
       ELSE [g |-> AdvanceTurn(f), ok |-> TRUE, msg |-> "Fold"]

\* player_action, action == "check".
ActCheck(g, i) ==
    IF ToCall(g, i) > 0
    THEN [g |-> g, ok |-> FALSE, msg |-> "Non puoi checkare se c'e' da chiamare"]
    ELSE [g |-> AdvanceTurn(g), ok |-> TRUE, msg |-> "Check"]

\* ActCall with the whole debt taken from the stack, however small the stack.
ActCall_NoCap(g, i) ==
    IF ToCall(g, i) <= 0
    THEN [g |-> g, ok |-> FALSE, msg |-> "Non c'e' nulla da chiamare, usa 'check'."]
    ELSE LET p == g.players[i + 1]
             put == ToCall(g, i)
             c == [g EXCEPT !.players[i + 1].chips = @ - put,
                            !.players[i + 1].current_bet = @ + put,
                            !.players[i + 1].all_in = IF p.chips - put = 0 THEN TRUE ELSE @]
         IN [g |-> AdvanceTurn(c), ok |-> TRUE, msg |-> "Call"]

\* player_action, action == "call".
ActCall(g, i) ==
    IF ToCall(g, i) <= 0
    THEN [g |-> g, ok |-> FALSE, msg |-> "Non c'e' nulla da chiamare, usa 'check'."]
    ELSE LET p == g.players[i + 1]
             put == IF ToCall(g, i) < p.chips THEN ToCall(g, i) ELSE p.chips
             c == [g EXCEPT !.players[i + 1].chips = @ - put,
                            !.players[i + 1].current_bet = @ + put,
                            !.players[i + 1].all_in = IF p.chips - put = 0 THEN TRUE ELSE @]
         IN [g |-> AdvanceTurn(c), ok |-> TRUE, msg |-> "Call"]

\* min_inc of the raise branch.
MinInc(g) == IF g.last_raiser_idx # None THEN g.last_raise_amount ELSE bb

\* The raise is refused as too small: below min_inc and not the whole stack.
RaiseTooSmall(g, i, amount) ==
    amount < MinInc(g) /\ (ToCall(g, i) + amount) < g.players[i + 1].chips

\* "Aggiorna la puntata corrente del tavolo solo se e' maggiore".
UpdateTableBet(g, i) ==
    IF g.players[i + 1].current_bet > g.current_bet
    THEN [g EXCEPT !.last_raise_amount = g.players[i + 1].current_bet - g.current_bet,
                   !.current_bet = g.players[i + 1].current_bet,
                   !.last_raiser_idx = g.turn_idx]
    ELSE g

\* ActRaise with the chips taken before the size of the raise is validated.
ActRaise_PayFirst(g, i, amount) ==
    IF amount <= 0
    THEN [g |-> g, ok |-> FALSE, msg |-> "Specifica un importo di rilancio valido."]
    ELSE LET p == g.players[i + 1]
             wanted == ToCall(g, i) + amount
             allin == wanted >= p.chips
             to_put == IF allin THEN p.chips ELSE wanted
             r == [g EXCEPT !.players[i + 1].chips = @ - to_put,
                            !.players[i + 1].current_bet = @ + to_put,
                            !.players[i + 1].all_in = IF allin THEN TRUE ELSE @]
         IN IF RaiseTooSmall(g, i, amount)
            THEN [g |-> r, ok |-> FALSE,
                  msg |-> "L'incremento del rilancio deve essere di almeno min_inc."]
            ELSE [g |-> AdvanceTurn(UpdateTableBet(r, i)), ok |-> TRUE, msg |-> "Raised"]

\* ActRaise with the amount read as the actor's new total wager.
ActRaise_AmountAsTotal(g, i, amount) ==
    IF amount <= 0
    THEN [g |-> g, ok |-> FALSE, msg |-> "Specifica un importo di rilancio valido."]
    ELSE IF RaiseTooSmall(g, i, amount)
    THEN [g |-> g, ok |-> FALSE, msg |-> "L'incremento del rilancio deve essere di almeno min_inc."]
    ELSE LET p == g.players[i + 1]
             wanted == amount - p.current_bet
             allin == wanted >= p.chips
             to_put == IF allin THEN p.chips ELSE wanted
             r == [g EXCEPT !.players[i + 1].chips = @ - to_put,
                            !.players[i + 1].current_bet = @ + to_put,
                            !.players[i + 1].all_in = IF allin THEN TRUE ELSE @]
         IN [g |-> AdvanceTurn(UpdateTableBet(r, i)), ok |-> TRUE, msg |-> "Raised"]

\* player_action, action == "raise".
ActRaise(g, i, amount) ==
    IF amount <= 0
    THEN [g |-> g, ok |-> FALSE, msg |-> "Specifica un importo di rilancio valido."]
    ELSE IF RaiseTooSmall(g, i, amount)
    THEN [g |-> g, ok |-> FALSE, msg |-> "L'incremento del rilancio deve essere di almeno min_inc."]
    ELSE LET p == g.players[i + 1]
             wanted == ToCall(g, i) + amount
             allin == wanted >= p.chips
             to_put == IF allin THEN p.chips ELSE wanted
             r == [g EXCEPT !.players[i + 1].chips = @ - to_put,
                            !.players[i + 1].current_bet = @ + to_put,
                            !.players[i + 1].all_in = IF allin THEN TRUE ELSE @]
         IN [g |-> AdvanceTurn(UpdateTableBet(r, i)), ok |-> TRUE, msg |-> "Raised"]

\* Precheck with the turn test forgotten.
Precheck_NoTurn(g, pid) ==
    LET i == FindPlayer(g, pid)
    IN IF i = None THEN "Player non trovato"
       ELSE IF ~g.players[i + 1].in_hand THEN "Hai gia' foldato"
       ELSE IF ~g.started THEN "Mano non iniziata"
       ELSE IF g.players[i + 1].all_in THEN "Sei All-in, non puoi agire"
       ELSE ""

\* The refusals at the head of player_action, in the order of the source: the
\* reason the call is refused before the action is looked at, "" when it is not.
Precheck(g, pid) ==
    LET i == FindPlayer(g, pid)
    IN IF i = None THEN "Player non trovato"
       ELSE IF ~g.players[i + 1].in_hand THEN "Hai gia' foldato"
       ELSE IF ~g.started THEN "Mano non iniziata"
       ELSE IF g.players[g.turn_idx + 1].id # pid THEN "Non e' il tuo turno"
       ELSE IF g.players[i + 1].all_in THEN "Sei All-in, non puoi agire"
       ELSE ""

\* Game.player_action(player_id, action, amount)
player_action(g, pid, action, amount) ==
    LET i == FindPlayer(g, pid)
        why == Precheck(g, pid)
    IN IF why # "" THEN [g |-> g, ok |-> FALSE, msg |-> why]
       ELSE IF action = "fold" THEN ActFold(g, i)
       ELSE IF action = "check" THEN ActCheck(g, i)
       ELSE IF action = "call" THEN ActCall(g, i)
       ELSE IF action = "raise" THEN ActRaise(g, i, amount)
       ELSE [g |-> g, ok |-> FALSE, msg |-> "Azione non riconosciuta"]

\* repr(card): the rank ("10" for T) followed by the suit.
RankStr == <<"2", "3", "4", "5", "6", "7", "8", "9", "10", "J", "Q", "K", "A">>
SuitStr == <<"S", "H", "D", "C">>
CardRepr(c) == RankStr[(c \div NumSuits) + 1] \o SuitStr[(c % NumSuits) + 1]

\* Card.to_dict
CardDict(c) ==
    [rank |-> RankStr[(c \div NumSuits) + 1], suit |-> SuitStr[(c % NumSuits) + 1],
     str |-> CardRepr(c)]

\* Player.to_public(reveal)
to_public(p, reveal) ==
    [id |-> p.id, chips |-> p.chips, in_hand |-> p.in_hand,
     current_bet |-> p.current_bet, all_in |-> p.all_in,
     hole |-> IF reveal THEN [i \in DOMAIN p.hole |-> CardRepr(p.hole[i])]
                        ELSE [i \in DOMAIN p.hole |-> "XX"]]

\* public_state with every player's cards revealed at every stage.
public_state_RevealAll(g, player_id) ==
    [players |-> [i \in DOMAIN g.players |-> to_public(g.players[i], TRUE)],
     community |-> [i \in DOMAIN g.community |-> CardDict(g.community[i])],
     pot |-> g.pot,
     stage |-> g.stage,
     dealer_idx |-> g.dealer_idx,
     current_bet |-> g.current_bet,
     turn_id |-> IF g.players # << >> /\ g.started
                 THEN g.players[g.turn_idx + 1].id ELSE None,
     hand_started |-> g.started]

\* Game.public_state(player_id)
public_state(g, player_id) ==
    [players |-> [i \in DOMAIN g.players |->
                     to_public(g.players[i],
                               g.players[i].id = player_id \/ g.stage = "showdown")],
     community |-> [i \in DOMAIN g.community |-> CardDict(g.community[i])],
     pot |-> g.pot,
     stage |-> g.stage,
     dealer_idx |-> g.dealer_idx,
     current_bet |-> g.current_bet,
     turn_id |-> IF g.players # << >> /\ g.started
                 THEN g.players[g.turn_idx + 1].id ELSE None,
     hand_started |-> g.started]

\* -------------------------------------------------------------------- State
VARIABLES
    players,            \* Game.players: the seats, each a Player record
    deck,               \* Game.deck.cards
    community,          \* Game.community
    pot,                \* Game.pot
    dealer_idx,         \* Game.dealer_idx
    current_bet,        \* Game.current_bet
    turn_idx,           \* Game.turn_idx
    started,            \* Game.started
    stage,              \* Game.stage
    last_raiser_idx,    \* Game.last_raiser_idx
    last_raise_amount,  \* Game.last_raise_amount
    next_id,            \* the number of ids handed out by add_player so far
    hands,              \* the number of hands started so far
    call,               \* the last call made on the table and its arguments
    ret,                \* what that call returned: (ok, message)
    staked              \* history: the chips each seat has put in since the hand
                        \* began (blinds, calls and raises); the engine keeps no
                        \* such field

gameVars == <<players, deck, community, pot, dealer_idx, current_bet, turn_idx,
              started, stage, last_raiser_idx, last_raise_amount>>
vars == <<players, deck, community, pot, dealer_idx, current_bet, turn_idx,
          started, stage, last_raiser_idx, last_raise_amount, next_id, hands, call, ret,
          staked>>

\* The history of chips put in, after a call that takes the seats from before to
\* after without reseating anybody: what each stack has lost is added.
StakedAfter(before, after) ==
    [i \in DOMAIN after |->
        staked[i] + (IF after[i].chips < before[i].chips
                     THEN before[i].chips - after[i].chips ELSE 0)]

\* The table as one record, and the assignment of a record to the table.
Table ==
    [players |-> players, deck |-> deck, community |-> community, pot |-> pot,
     dealer_idx |-> dealer_idx, current_bet |-> current_bet, turn_idx |-> turn_idx,
     started |-> started, stage |-> stage, last_raiser_idx |-> last_raiser_idx,
     last_raise_amount |-> last_raise_amount]

Becomes(g) ==
    /\ players' = g.players
    /\ deck' = g.deck
    /\ community' = g.community
    /\ pot' = g.pot
    /\ dealer_idx' = g.dealer_idx
    /\ current_bet' = g.current_bet
    /\ turn_idx' = g.turn_idx
    /\ started' = g.started
    /\ stage' = g.stage
    /\ last_raiser_idx' = g.last_raiser_idx
    /\ last_raise_amount' = g.last_raise_amount

\* The room as create_room leaves it: Game(max_players), nobody seated.
Init ==
    /\ players = NewGame.players
    /\ deck = NewGame.deck
    /\ community = NewGame.community
    /\ pot = NewGame.pot
    /\ dealer_idx = NewGame.dealer_idx
    /\ current_bet = NewGame.current_bet
    /\ turn_idx = NewGame.turn_idx
    /\ started = NewGame.started
    /\ stage = NewGame.stage
    /\ last_raiser_idx = NewGame.last_raiser_idx
    /\ last_raise_amount = NewGame.last_raise_amount
    /\ next_id = 1
    /\ hands = 0
    /\ call = [op |-> "create_room", pid |-> 0, action |-> "", amount |-> 0]
    /\ ret = [ok |-> TRUE, msg |-> ""]
    /\ staked = << >>

\* The ids callers may present: those handed out so far and 0, which is never
\* handed out.
KnownIds == 0..(next_id - 1)

\* app.join: refused once the game has started, else Game.add_player with a
\* fresh id.
Join ==
    /\ next_id <= max_players
    /\ LET r == IF started
                THEN [g |-> Table, ok |-> FALSE, msg |-> "Game already started"]
                ELSE add_player(Table, next_id)
       IN /\ Becomes(r.g)
          /\ next_id' = IF r.ok THEN next_id + 1 ELSE next_id
          /\ call' = [op |-> "add_player", pid |-> next_id, action |-> "", amount |-> 0]
          /\ ret' = [ok |-> r.ok, msg |-> r.msg]
          /\ staked' = IF r.ok THEN Append(staked, 0) ELSE staked
    /\ UNCHANGED hands

\* app.start: Game.start_hand with a freshly shuffled deck.
StartHand ==
    /\ hands < MaxHands
    /\ \E shuffled \in Shuffles :
          LET r == start_hand(Table, shuffled)
          IN /\ Becomes(r.g)
             /\ hands' = IF r.ok THEN hands + 1 ELSE hands
             /\ call' = [op |-> "start_hand", pid |-> 0, action |-> "", amount |-> 0]
             /\ ret' = [ok |-> r.ok, msg |-> r.msg]
             /\ staked' = IF r.ok
                           THEN [i \in DOMAIN r.g.players |->
                                    WithChips(players)[i].chips - r.g.players[i].chips]
                           ELSE staked
    /\ UNCHANGED next_id

\* app.action: Game.player_action(player_id, action, amount); the amount only
\* matters to a raise.
PlayerAction ==
    /\ \E pid \in KnownIds, action \in ActionWords, amount \in Amounts :
          /\ action # "raise" => amount = 0
          /\ LET r == player_action(Table, pid, action, amount)
             IN /\ Becomes(r.g)
                /\ call' = [op |-> "player_action", pid |-> pid, action |-> action,
                            amount |-> amount]
                /\ ret' = [ok |-> r.ok, msg |-> r.msg]
                /\ staked' = StakedAfter(players, r.g.players)
    /\ UNCHANGED <<next_id, hands>>

Next == Join \/ StartHand \/ PlayerAction

Spec == Init /\ [][Next]_vars

\* The showdown branch of "Assegnazione del piatto" in main(), the one caller of
\* collect_pots_and_award at a showdown: with the hand started and the stage at
\* showdown, the residual wagers are flushed and the pot is awarded.  The
\* settlement is explored for the last of the MaxHands hands, the one after
\* which no hand is dealt.
Settle ==
    /\ hands = MaxHands
    /\ started
    /\ stage = "showdown"
    /\ \E r \in {collect_pots_and_award(flush_current_bets_to_pot(Table))} :
          /\ Becomes(r.g)
          /\ ret' = [ok |-> TRUE, msg |-> "", results |-> r.results]
    /\ call' = [op |-> "collect_pots_and_award", pid |-> 0, action |-> "", amount |-> 0]
    /\ UNCHANGED <<next_id, hands, staked>>

\* The table driven through every entry point of Game that changes it: the
\* three requests of the web layer and the settlement of the console loop.
TableNext == Join \/ StartHand \/ PlayerAction \/ Settle

TableSpec == Init /\ [][TableNext]_vars

\* app.state: Game.public_state(player_id), which changes nothing on the table;
\* the snapshot is what the request returns.
State ==
    /\ \E pid \in KnownIds :
          /\ call' = [op |-> "public_state", pid |-> pid, action |-> "", amount |-> 0]
          /\ ret' = [ok |-> TRUE, msg |-> "", state |-> public_state(Table, pid)]
    /\ UNCHANGED <<gameVars, next_id, hands, staked>>

\* The requests of the web layer, the state request included.
ViewNext == Join \/ StartHand \/ PlayerAction \/ State

ViewSpec == Init /\ [][ViewNext]_vars

\* The boards and the hole cards the evaluator is run on: five boards (three
\* low cards; three middle cards; the ace-to-five straight; a pair; four
\* spades) and every two different cards of a pool that are not on the board.
EvalBoards ==
    {<<0, 5, 10, 45, 30>>, <<4, 9, 14, 47, 29>>, <<48, 1, 6, 11, 12>>,
     <<0, 1, 6, 11, 30>>, <<0, 4, 8, 12, 45>>}
EvalPool == {48, 49, 13, 16, 18, 22, 2, 7, 46, 35}

\* A table holding one player with two hole cards and a full board.
EvalInit ==
    /\ \E b \in EvalBoards, h1 \in EvalPool, h2 \in EvalPool :
          /\ h1 # h2
          /\ {h1, h2} \cap Range(b) = {}
          /\ players = <<[NewPlayer(1) EXCEPT !.hole = <<h1, h2>>]>>
          /\ community = b
    /\ deck = NewGame.deck
    /\ pot = NewGame.pot
    /\ dealer_idx = NewGame.dealer_idx
    /\ current_bet = NewGame.current_bet
    /\ turn_idx = NewGame.turn_idx
    /\ started = NewGame.started
    /\ stage = "showdown"
    /\ last_raiser_idx = NewGame.last_raiser_idx
    /\ last_raise_amount = NewGame.last_raise_amount
    /\ next_id = 2
    /\ hands = 0
    /\ call = [op |-> "deal", pid |-> 0, action |-> "", amount |-> 0]
    /\ ret = [ok |-> TRUE, msg |-> ""]
    /\ staked = <<0>>

\* score = best_from_seven(p.hole + self.community), as collect_pots_and_award
\* calls it for a player in hand.
Evaluate ==
    /\ call' = [op |-> "best_from_seven", pid |-> players[1].id, action |-> "", amount |-> 0]
    /\ ret' = [ok |-> TRUE, msg |-> "",
               score |-> best_from_seven(players[1].hole \o community)]
    /\ UNCHANGED <<gameVars, next_id, hands, staked>>

EvalSpec == EvalInit /\ [][Evaluate]_vars

\* ------------------------------------------------------------------ Claims
\* Every step of Next is one call on the table, recorded in call' with its
\* result in ret'; the unprimed variables are the table before the call.
Acted == call'.op = "player_action"
Succeeded == Acted /\ ret'.ok
Refused == Acted /\ ~ret'.ok

\* sum(stacks) + pot + sum(current-round wagers)
Money == SumChips(players) + pot + SumBets(players)

\* The seat (1-based) at the turn index, the one a successful action is by.
Actor == turn_idx + 1

\* The seat (1-based) of the player who made the last call, 0 when not seated.
Caller == FindPlayer(Table, call.pid) + 1

\* C1: money conservation.  A successful start_hand leaves
\* sum(stacks) + pot + sum(wagers) equal to the sum of the stacks just before
\* it, and every player_action of the hand in progress keeps that total.
C1_MoneyConserved ==
    [][/\ (call'.op = "start_hand" /\ ret'.ok) => Money' = SumChips(players)
       /\ (Succeeded /\ started') => Money' = Money]_vars

\* C2: a player_action that returns ok = false leaves the whole table as it
\* was: players (stacks, wagers, flags, hole cards), deck, community cards,
\* pot, dealer, current bet, turn index, stage and the raise bookkeeping.
C2_RefusalChangesNothing == [][Refused => UNCHANGED gameVars]_vars

\* A raise below the minimum has just been refused in a hand in progress.
C2_Witness ==
    /\ call.op = "player_action" /\ call.action = "raise" /\ call.amount > 0
    /\ ~ret.ok
    /\ started
    /\ Caller = Actor

\* C3: turn order.  A player_action succeeds only when a hand is started and
\* the caller is the seat at the turn index, in hand and not all-in.
C3_TurnOrder ==
    [][Succeeded =>
          /\ started
          /\ Actor \in DOMAIN players
          /\ players[Actor].id = call'.pid
          /\ players[Actor].in_hand
          /\ ~players[Actor].all_in]_vars

\* An action has just succeeded at a table where another seat could have
\* tried to act.
C3_Witness ==
    /\ call.op = "player_action" /\ ret.ok
    /\ Len(players) >= 2
    /\ stage = "preflop"

\* C4: once the stage is showdown every player_action is refused and changes
\* nothing.
C4_ShowdownRefusesAll ==
    [][(stage = "showdown" /\ Acted) => (~ret'.ok /\ UNCHANGED gameVars)]_vars

\* C5: settlement runs inside the call that brings the hand to showdown: no
\* successful player_action returns with the stage at showdown and the pot
\* still on the table.
C5_SettledOnReturn ==
    (call.op = "player_action" /\ ret.ok) => ~(stage = "showdown" /\ pot > 0)

\* C6: in every state whose stage is waiting the pot is 0.
C6_WaitingPotZero == stage = "waiting" => pot = 0

\* A raise has just succeeded and has left chips in the actor's stack.
RaisedWithChipsLeft ==
    /\ Succeeded /\ call'.action = "raise"
    /\ players'[Actor].chips > 0

\* C7 as claimed: the amount of a raise is the actor's new total wager.  After
\* a successful raise that leaves chips in the actor's stack, the actor's wager
\* and the current bet equal the amount and the stack has gone down by the
\* amount minus the previous wager.
C7_AmountIsNewTotal ==
    [][RaisedWithChipsLeft =>
          /\ players'[Actor].current_bet = call'.amount
          /\ current_bet' = call'.amount
          /\ players'[Actor].chips
                 = players[Actor].chips - (call'.amount - players[Actor].current_bet)]_vars

\* C7 as amended: the amount of a raise is the increment over the current bet.
\* After a successful raise that leaves chips in the actor's stack, the stack
\* has gone down by what the actor owed plus the amount, and, unless the raise
\* closed the round (the stage moved on and the wagers went to the pot), the
\* actor's wager and the current bet both equal the previous current bet plus
\* the amount.
C7_AmountIsIncrement ==
    [][RaisedWithChipsLeft =>
          /\ players'[Actor].chips
                 = players[Actor].chips
                   - ((current_bet - players[Actor].current_bet) + call'.amount)
          /\ stage' = stage =>
                /\ players'[Actor].current_bet = current_bet + call'.amount
                /\ current_bet' = current_bet + call'.amount]_vars

\* A raise has just succeeded, left chips behind and left the round open: the
\* raiser's wager is the current bet and somebody else is to act.
C7_Witness ==
    /\ call.op = "player_action" /\ call.action = "raise" /\ ret.ok
    /\ Caller >= 1
    /\ players[Caller].chips > 0
    /\ players[Caller].current_bet = current_bet
    /\ current_bet > call.amount
    /\ Caller # Actor

\* C8: minimum raise.  The minimum legal increment is the last full raise of the
\* round or the big blind, and a full raise is itself at least the minimum, so
\* the minimum never falls below the big blind, short all-in raises included:
\* every accepted raise that leaves chips in the actor's stack lifts the
\* current bet by at least the big blind.
C8_MinimumRaise ==
    [][RaisedWithChipsLeft =>
          (players[Actor].current_bet + (players[Actor].chips - players'[Actor].chips))
              - current_bet >= bb]_vars

\* C9: check is accepted only when the actor's wager equals the current bet,
\* and call only when the actor owes more than 0.
C9_CheckOnlyWhenLevel ==
    [][/\ (Succeeded /\ call'.action = "check")
              => players[Actor].current_bet = current_bet
       /\ (Succeeded /\ call'.action = "call")
              => current_bet - players[Actor].current_bet > 0]_vars

\* The seats (1-based) in hand.
InHand(ps) == {i \in DOMAIN ps : ps[i].in_hand}

\* C10: single survivor.  When a fold leaves exactly one player in hand, the
\* call returns with every wager flushed, the survivor's stack up by the whole
\* pot (the pot plus the wagers of the round), the pot at 0, the hand over
\* (stage waiting, not started) and every other stack as it was.
C10_SingleSurvivor ==
    [][(Succeeded /\ call'.action = "fold" /\ Cardinality(InHand(players')) = 1) =>
          /\ pot' = 0
          /\ stage' = "waiting"
          /\ ~started'
          /\ \A i \in DOMAIN players' :
                /\ players'[i].current_bet = 0
                /\ players'[i].chips =
                       IF i \in InHand(players')
                       THEN players[i].chips + pot + SumBets(players)
                       ELSE players[i].chips]_vars

\* A fold has just left one player in hand, the hand is over and that player
\* holds more than the starting stack plus the blinds.
C10_Witness ==
    /\ call.op = "player_action" /\ call.action = "fold" /\ ret.ok
    /\ Cardinality(InHand(players)) = 1
    /\ stage = "waiting"
    /\ \E i \in InHand(players) : players[i].chips > StartChips + sb + bb

\* The seat (0-based) k places after the turn index.
SeatAfterTurn(g, k) == (g.turn_idx + k) % Len(g.players)

\* C11: fold to one.  At a three-player table where a hand has just started
\* and every stack covers the raise, the seat to act (A) folds, the next seat
\* (B, the small blind) calls, the seat after it (C, the big blind) raises by
\* twice the big blind and B folds: every one of the four calls is accepted,
\* none of them leaves the stage at showdown, and the last one leaves C alone in
\* hand with the whole pot, the hand over.
C11_FoldToOne ==
    (/\ call.op = "start_hand" /\ ret.ok
     /\ Len(players) = 3
     /\ \A i \in DOMAIN players : players[i].chips > 3 * bb) =>
        LET a == SeatAfterTurn(Table, 0)
            b == SeatAfterTurn(Table, 1)
            c == SeatAfterTurn(Table, 2)
            r1 == player_action(Table, players[a + 1].id, "fold", 0)
            r2 == player_action(r1.g, players[b + 1].id, "call", 0)
            r3 == player_action(r2.g, players[c + 1].id, "raise", 2 * bb)
            r4 == player_action(r3.g, players[b + 1].id, "fold", 0)
        IN /\ r1.ok /\ r2.ok /\ r3.ok /\ r4.ok
           /\ "showdown" \notin {r1.g.stage, r2.g.stage, r3.g.stage, r4.g.stage}
           /\ InPlay(r4.g) = {c}
           /\ r4.g.pot = 0
           /\ r4.g.stage = "waiting"
           /\ r4.g.players[c + 1].chips > players[c + 1].chips

\* A step that is the settlement of a showdown.
Settled == call'.op = "collect_pots_and_award"

\* What the seat i (1-based) is awarded by the step.
Award(i) == players'[i].chips - players[i].chips

\* The chips put in by the other seats above the level of the seat w (1-based):
\* the layers of the pot that w has not contributed to.
RECURSIVE SumOver(_, _)
SumOver(f, S) ==
    IF S = {} THEN 0
    ELSE LET x == CHOOSE y \in S : TRUE IN f[x] + SumOver(f, S \ {x})

Excess(w) ==
    SumOver([j \in DOMAIN staked |->
                IF staked[j] > staked[w] THEN staked[j] - staked[w] ELSE 0],
            DOMAIN staked)

\* C12: side pots.  At the settlement of a showdown reached with every wager
\* already in the pot, a player who is in hand and all-in is eligible only for
\* the layers of the pot at or below their own contribution: such a player is
\* never awarded the chips that other seats put in above that player's own total
\* contribution.
C12_SidePots ==
    [][(Settled /\ SumBets(players) = 0) =>
          \A w \in InHand(players) :
              players[w].all_in => Award(w) <= pot - Excess(w)]_vars

\* The seats (1-based) in hand whose seven cards score the most.
Best == {i \in InHand(players) :
            \A j \in InHand(players) : ~ScoreGreater(ScoreOf(Table, j - 1), ScoreOf(Table, i - 1))}

\* C13: exact split.  The settlement of a showdown splits the accumulated pot
\* (the pot and the wagers still in front of the players) equally among the
\* players in hand who share the greatest score, gives the remainder of the
\* division to the one of them at the earliest seat, and awards nothing to
\* anybody else; the stacks go up by exactly the accumulated pot in total and
\* the pot becomes 0.
C13_ExactSplit ==
    [][Settled =>
          LET total == pot + SumBets(players)
              k == Cardinality(Best)
          IN /\ \A i \in DOMAIN players :
                    Award(i) = IF i \notin Best THEN 0
                               ELSE IF i = Min(Best) THEN (total \div k) + (total % k)
                               ELSE total \div k
             /\ SumChips(players') = SumChips(players) + total
             /\ pot' = 0]_vars

\* A showdown has just been settled between tied winners with a remainder: the
\* first winner was awarded more than the second.
C13_Witness ==
    /\ call.op = "collect_pots_and_award"
    /\ Len(ret.results) >= 2
    /\ ret.results[1].amount > ret.results[2].amount
    /\ pot = 0

\* The place of a stage in the order waiting, preflop, flop, turn, river,
\* showdown.
StageRank(st) ==
    CASE st = "waiting" -> 0
      [] st = "preflop" -> 1
      [] st = "flop" -> 2
      [] st = "turn" -> 3
      [] st = "river" -> 4
      [] st = "showdown" -> 5

\* C14: stage monotonicity.  Every call either leaves the stage where it was,
\* moves it forward in the order waiting, preflop, flop, turn, river, showdown,
\* or returns it to waiting; a successful start_hand begins from waiting, never
\* from a hand in progress or at showdown.
C14_StageMonotone ==
    [][/\ stage' # "waiting" => StageRank(stage') >= StageRank(stage)
       /\ (call'.op = "start_hand" /\ ret'.ok) => stage = "waiting"]_vars

\* Hole cards that a player other than the viewer might hold instead.
OtherHoles == {<<0, 1>>, <<51, 50>>, <<20, 33>>}

\* The tables that differ from the table only in the hole cards of the seats
\* other than s (1-based) that hold two cards.
SameButOthersHoles(s) ==
    {[Table EXCEPT !.players =
         [j \in DOMAIN players |->
             IF j = s \/ Len(players[j].hole) # 2 THEN players[j]
             ELSE [players[j] EXCEPT !.hole = hs[j]]]] :
        hs \in [DOMAIN players -> OtherHoles]}

\* C15: hole-card privacy.  While the stage is not showdown, public_state for
\* the seat s shows the real hole cards of s, a hidden placeholder for each
\* hole card of every other player, and is the same on every table that differs
\* only in the other players' hole cards.
C15_HoleCardPrivacy ==
    stage # "showdown" =>
        \A s \in DOMAIN players :
            LET view == public_state(Table, players[s].id)
            IN /\ view.players[s].hole =
                      [i \in DOMAIN players[s].hole |-> CardRepr(players[s].hole[i])]
               /\ \A j \in DOMAIN players \ {s} :
                      view.players[j].hole = [i \in DOMAIN players[j].hole |-> "XX"]
               /\ \A t \in SameButOthersHoles(s) :
                      public_state(t, players[s].id) = view

\* A seated player has just been sent the state of a hand in progress: two
\* cards of their own, two placeholders for somebody else's.
C15_Witness ==
    /\ call.op = "public_state"
    /\ stage = "preflop"
    /\ Caller >= 1
    /\ Len(ret.state.players[Caller].hole) = 2
    /\ ret.state.players[Caller].hole[1] = CardRepr(players[Caller].hole[1])
    /\ \E j \in DOMAIN players :
          j # Caller /\ ret.state.players[j].hole = <<"XX", "XX">>

\* The smaller of two numbers.
Least(a, b) == IF a < b THEN a ELSE b

\* C16: blind posting.  After a successful start_hand that leaves the dealer
\* index at d among n playing seats (those that had chips, in seat order), the
\* seat (d + 1) mod n has wagered min(sb, its stack) and the seat (d + 2) mod n
\* min(bb, its stack), each out of its stack, each all-in exactly when its stack
\* became 0; the current bet and the last raise increment both equal the big
\* blind amount (the big blind of the table, or what the big blind seat posted);
\* the turn index is the seat after the big blind; every seat holds 2 hole
\* cards; no other stack has changed.
C16_BlindPosting ==
    [][(call'.op = "start_hand" /\ ret'.ok) =>
          LET before == WithChips(players)
              n == Len(players')
              sbs == ((dealer_idx' + 1) % n) + 1
              bbs == ((dealer_idx' + 2) % n) + 1
          IN /\ n = Len(before)
             /\ players'[sbs].current_bet = Least(sb, before[sbs].chips)
             /\ players'[bbs].current_bet = Least(bb, before[bbs].chips)
             /\ \A i \in {sbs, bbs} :
                   /\ players'[i].chips = before[i].chips - players'[i].current_bet
                   /\ players'[i].all_in <=> players'[i].chips = 0
             /\ \/ current_bet' = bb /\ last_raise_amount' = bb
                \/ /\ current_bet' = players'[bbs].current_bet
                   /\ last_raise_amount' = players'[bbs].current_bet
             /\ turn_idx' = bbs % n
             /\ \A i \in 1..n :
                   /\ Len(players'[i].hole) = 2
                   /\ i \notin {sbs, bbs} => players'[i].chips = before[i].chips]_vars

\* The values and the suits of the seven cards of the first player.
SevenCards == players[1].hole \o community
SevenValues == {CardValue(SevenCards[i]) : i \in DOMAIN SevenCards}
NoFiveSuited ==
    \A su \in 0..(NumSuits - 1) :
        Cardinality({i \in DOMAIN SevenCards : CardSuit(SevenCards[i]) = su}) < 5

\* The best five of the seven cards are the ace-to-five straight: ace, 2, 3, 4
\* and 5 are there, no 6 to make a higher straight and no five cards of a suit
\* (five different values in seven cards leave no room for a full house or
\* four of a kind).
BestIsWheel == {14, 2, 3, 4, 5} \subseteq SevenValues /\ 6 \notin SevenValues /\ NoFiveSuited

\* The best five are the straight 2, 3, 4, 5, 6.
BestIsSixHigh == {2, 3, 4, 5, 6} \subseteq SevenValues /\ 7 \notin SevenValues /\ NoFiveSuited

\* The five-card hands out of the seven cards.
FiveOfSeven ==
    {SelectSeq([i \in DOMAIN SevenCards |-> IF i \in S THEN SevenCards[i] ELSE None],
               LAMBDA c : c # None) :
        S \in {T \in SUBSET (DOMAIN SevenCards) : Cardinality(T) = 5}}

WheelScore == [cat |-> 4, kick |-> <<5>>]

\* C17: straights in the evaluator.  best_from_seven scores seven cards whose
\* best five are ace, 2, 3, 4, 5 as a Straight with high card 5; that score is
\* strictly below the score of seven cards whose best five are 2, 3, 4, 5, 6
\* and strictly above every score of Three of a Kind or lower; and the score
\* returned is the greatest of the scores of the 21 five-card hands.
C17_WheelOrdering ==
    call.op = "best_from_seven" =>
        /\ BestIsWheel => ret.score = WheelScore /\ HandName(ret.score) = "Straight"
        /\ BestIsSixHigh => ret.score.cat = 4 /\ ScoreGreater(ret.score, WheelScore)
        /\ ret.score.cat <= 3 => ScoreGreater(WheelScore, ret.score)
        /\ Cardinality(DOMAIN SevenCards) = 7
        /\ \A five \in FiveOfSeven : ~ScoreGreater(evaluate_5cards(five), ret.score)
        /\ \E five \in FiveOfSeven : evaluate_5cards(five) = ret.score

\* Seven cards whose best five are ace, 2, 3, 4, 5, with a pair among them,
\* have been scored.
C17_Witness ==
    /\ call.op = "best_from_seven"
    /\ BestIsWheel
    /\ Cardinality(SevenValues) < 7
    /\ ret.score = WheelScore

\* The stages in which bets are made.
BettingStages == {"preflop", "flop", "turn", "river"}

\* The wager of the seat i (1-based) once the action of the step has been
\* applied and before any flush: what it was, plus what has left the stack.
WagerAfter(i) ==
    players[i].current_bet
        + (IF players'[i].chips < players[i].chips
           THEN players[i].chips - players'[i].chips ELSE 0)

\* The current bet once the action of the step has been applied: a raise lifts
\* it to the raiser's wager.
BetAfter ==
    IF call'.action = "raise" /\ WagerAfter(Actor) > current_bet
    THEN WagerAfter(Actor) ELSE current_bet

\* Every player in hand and not all-in after the action has wagered exactly the
\* current bet.
AllLevel ==
    \A i \in DOMAIN players :
        (players'[i].in_hand /\ ~players'[i].all_in) => WagerAfter(i) = BetAfter

\* The step closed the betting round: the wagers are flushed and the stage has
\* moved on.
RoundClosed == stage' # stage /\ SumBets(players') = 0

\* C18: round closure.  A successful action in a betting stage that leaves at
\* least two players in hand closes the round if and only if every player in
\* hand and not all-in has then wagered exactly the current bet; in particular
\* a raise leaves the round open while another such player is below it.
C18_RoundClosure ==
    [][(/\ Succeeded
        /\ stage \in BettingStages
        /\ Cardinality(InHand(players')) >= 2) =>
            (RoundClosed <=> AllLevel)]_vars

\* The seat (1-based) of the big blind of the hand in progress.
BigBlindSeat == ((dealer_idx + 2) % Len(players)) + 1

\* The players (1-based seats) in hand and not all-in once the step is taken.
CanStillBet == {i \in DOMAIN players' : players'[i].in_hand /\ ~players'[i].all_in}

\* C19: opener rule.  No betting round closes before every player in hand and
\* not all-in has had a turn in it.  Pre-flop, while nobody has raised the big
\* blind, a call by another seat leaves the round open when the big blind is in
\* hand and not all-in (the big blind is still to check or raise); and with two
\* or more players able to bet no call moves the stage on by more than one
\* betting round, which would close a round in which nobody has acted.
C19_OpenerRule ==
    [][Succeeded =>
          /\ (/\ stage = "preflop"
              /\ call'.action = "call"
              /\ Actor # BigBlindSeat
              /\ last_raiser_idx = BigBlindSeat - 1
              /\ current_bet = players[BigBlindSeat].current_bet
              /\ BigBlindSeat \in CanStillBet) => stage' = "preflop"
          /\ (/\ stage \in BettingStages
              /\ Cardinality(CanStillBet) >= 2
              /\ stage' # "waiting") => StageRank(stage') <= StageRank(stage) + 1]_vars

\* The stage that follows a betting stage and the number of community cards it
\* shows.
StageAfter(st) ==
    CASE st = "preflop" -> "flop"
      [] st = "flop" -> "turn"
      [] st = "turn" -> "river"
      [] st = "river" -> "showdown"
BoardSize(st) ==
    CASE st = "flop" -> 3
      [] st = "turn" -> 4
      [] st = "river" -> 5
      [] st = "showdown" -> 5

\* The first seat (0-based) after the dealer, cyclically, among the players in
\* hand and not all-in once the step is taken.
FirstAfterDealer ==
    LET n == Len(players')
        k == Min({j \in 1..n : (((dealer_idx' + j) % n) + 1) \in CanStillBet})
    IN (dealer_idx' + k) % n

\* C20: stage advance.  When a successful action closes the round of preflop,
\* flop or turn (the stage moves on and the hand is not over) with at least two
\* players in hand and not all-in, the call returns at the next stage with its
\* 3, 4 or 5 community cards, every wager moved into the pot, the current bet
\* at 0 and the turn index at the first player in hand and not all-in after the
\* dealer, from whom a check is then accepted.
C20_StageAdvance ==
    [][(/\ Succeeded
        /\ stage \in {"preflop", "flop", "turn"}
        /\ stage' # stage /\ stage' # "waiting"
        /\ Cardinality(CanStillBet) >= 2) =>
            /\ stage' = StageAfter(stage)
            /\ Len(community') = BoardSize(StageAfter(stage))
            /\ SumBets(players') = 0
            /\ SumChips(players') + pot' = SumChips(players) + pot + SumBets(players)
            /\ current_bet' = 0
            /\ turn_idx' = FirstAfterDealer
            /\ player_action(Table', players'[turn_idx' + 1].id, "check", 0).ok]_vars

\* The table after the raise of amt by the seat at the turn index, and whether
\* that raise was a short all-in: accepted, the raiser's whole stack, lifting
\* the current bet by less than the minimum increment, the round left open.
AfterRaise(amt) == player_action(Table, players[turn_idx + 1].id, "raise", amt)
ShortAllIn(amt) ==
    /\ AfterRaise(amt).ok
    /\ AfterRaise(amt).g.players[turn_idx + 1].all_in
    /\ AfterRaise(amt).g.current_bet > current_bet
    /\ AfterRaise(amt).g.current_bet - current_bet < MinInc(Table)
    /\ AfterRaise(amt).g.started
    /\ AfterRaise(amt).g.stage = stage

\* The seat (1-based) the turn passes to had matched the bet that stood before
\* the raise of amt by its own call or raise: the bet was above the big blind
\* and the seat's wager was level with it.
NextHadMatched(amt) ==
    LET j == AfterRaise(amt).g.turn_idx + 1
    IN /\ j # turn_idx + 1
       /\ current_bet > bb
       /\ players[j].in_hand /\ ~players[j].all_in
       /\ players[j].current_bet = current_bet
       /\ players[j].chips > 0

\* The chips the seat j (1-based) to act at the table g puts in by a raise of a,
\* 0 when the raise is refused.
RaisePuts(g, j, a) ==
    LET r == player_action(g, g.players[j].id, "raise", a)
    IN IF r.ok THEN g.players[j].chips - r.g.players[j].chips ELSE 0

\* C21: a short all-in raise does not reopen the action.  At every table of a
\* hand in progress from which the seat to act can go all-in for an increase
\* below the minimum increment, the player the turn passes to, who had matched
\* the previous bet, may call the difference or fold, and no raise that player
\* submits is accepted; the formula asks the least of it, that no raise by that
\* player puts in more chips than the difference to call.
C21_ShortAllInNoReopen ==
    started =>
        \A amt \in Amounts \ {0} :
            (ShortAllIn(amt) /\ NextHadMatched(amt)) =>
                LET g1 == AfterRaise(amt).g
                    j == g1.turn_idx + 1
                IN /\ player_action(g1, g1.players[j].id, "call", 0).ok
                   /\ player_action(g1, g1.players[j].id, "fold", 0).ok
                   /\ \A a \in Amounts \ {0} : RaisePuts(g1, j, a) <= ToCall(g1, j - 1)

\* The greatest current-round wager among the players in hand.
MaxWager ==
    CHOOSE m \in {players[i].current_bet : i \in InHand(players)} :
        \A i \in InHand(players) : players[i].current_bet <= m

\* C22: in every state of a hand in progress the table's current bet equals the
\* greatest current-round wager over the players still in hand, right after the
\* blinds are posted by a short-stacked big blind included.
C22_CurrentBetIsMaxWager ==
    (started /\ InHand(players) # {}) => current_bet = MaxWager

\* The chips the step takes from the stack of the seat that acts.
Moved == players[Actor].chips - players'[Actor].chips

\* C23: no stack ever becomes negative.  After every call on the table each
\* stack is a non-negative integer, and a successful call or raise moves from
\* the actor's stack no more chips than it holds (and never a negative number),
\* calls and raises larger than the stack and raises by a player whose wager
\* exceeds the current bet included.
C23_NoNegativeStack ==
    [][/\ \A i \in DOMAIN players' : players'[i].chips \in Nat
       /\ (Succeeded /\ call'.action \in {"call", "raise"}) =>
              (Moved >= 0 /\ Moved <= players[Actor].chips)]_vars

\* A raise of more chips than the raiser held at the start of the hand has just
\* been accepted: the whole stack went in and it is less than the amount.
C23_Witness ==
    /\ call.op = "player_action" /\ call.action = "raise" /\ ret.ok
    /\ Caller >= 1
    /\ players[Caller].chips = 0
    /\ players[Caller].all_in
    /\ staked[Caller] > 0
    /\ staked[Caller] < call.amount

\* Some player_action is accepted at the table: some seated player may fold,
\* check, call or raise.
SomeActionAccepted ==
    \E pid \in KnownIds, action \in ActionWords, amount \in Amounts :
        player_action(Table, pid, action, amount).ok

\* C24: no deadlock during a hand.  In every state of a hand that is started
\* and still in a betting stage, the seat at the turn index is in hand and not
\* all-in, so that some player_action is accepted and the hand can go on,
\* heads-up hands in which the blind puts its poster all-in included.
C24_NoDeadlock ==
    (started /\ stage \in BettingStages) =>
        /\ players[turn_idx + 1].in_hand
        /\ ~players[turn_idx + 1].all_in
        /\ SomeActionAccepted

\* C25: all-in flag consistency.  In every state of a hand in progress a player
\* at the table is flagged all-in if and only if their stack is 0, and during a
\* hand a flag goes up only on the actor of a successful call or raise, at the
\* moment that stack reaches 0 (the blind posters' flags are set by start_hand
\* and fall under the first part).
C25_AllInIffStackZero ==
    [][/\ started' =>
              \A i \in DOMAIN players' : players'[i].all_in <=> (players'[i].chips = 0)
       /\ (Acted /\ started) =>
              \A i \in DOMAIN players' :
                  (players'[i].all_in /\ ~players[i].all_in) =>
                      /\ Succeeded
                      /\ call'.action \in {"call", "raise"}
                      /\ i = Actor
                      /\ players[i].chips > 0
                      /\ players'[i].chips = 0]_vars

\* A call has just put the caller all-in with an empty stack, in a hand in
\* progress in which a blind poster went all-in by the blind and a third player
\* still holds chips and is not flagged.
C25_Witness ==
    /\ call.op = "player_action" /\ call.action = "call" /\ ret.ok
    /\ started
    /\ Caller >= 1
    /\ players[Caller].all_in /\ players[Caller].chips = 0
    /\ \E i \in DOMAIN players :
          i # Caller /\ players[i].all_in /\ players[i].chips = 0 /\ staked[i] <= bb
    /\ \E i \in DOMAIN players : ~players[i].all_in /\ players[i].chips > 0

====
